---- MODULE Spec2Model ----
(***************************************************************************)
(* Discord interaction request and response types (src/src/types.rs).      *)
(*                                                                         *)
(* The request side is the serde-derived decoding of a raw JSON request    *)
(* into Request and the accessors of Request; the response side is the     *)
(* fluent builders of Response, its accessors and its serde-derived        *)
(* encoding.  JSON values are tagged records; a JSON object is a record    *)
(* of its keys, a key that is missing being read as Absent.                *)
(***************************************************************************)
EXTENDS Integers, Sequences, FiniteSets, TLC

VARIABLES raw, req, out, builder, resp, wire, got, origin, shouted, given

vars == <<raw, req, out, builder, resp, wire, got, origin, shouted, given>>

reqVars == <<raw, req, out>>

respVars == <<builder, resp, wire, got, origin, shouted, given>>

\* history of the response being built, kept to state the claims: the constructor
\* it started from, whether .shout() was called, the list last given to .components
histVars == <<origin, shouted, given>>

(***************************************************************************)
(* Bounds of the model.                                                    *)
(***************************************************************************)
\* rows of a submitted form
MaxRows == 2

\* children of one row of a submitted form
MaxChildren == 2

\* components handed to a builder's .components(list)
MaxList == 2

(***************************************************************************)
(* Numeric codes of the enums (serde_repr).                                *)
(***************************************************************************)
Type_Ping == 1

Type_ApplicationCommand == 2

Type_MessageComponent == 3

Type_ModalSubmit == 5

CallbackType_Pong == 1

CallbackType_ChannelMessageWithSource == 4

CallbackType_UpdateMessage == 7

CallbackType_Modal == 9

ComponentType_ActionRow == 1

ComponentType_Button == 2

ComponentType_TextInput == 4

TextInputStyle_Short == 1

ButtonStyle_Primary == 1

MessageFlags_Ephemeral == 64

\* largest value of the u8 that component_type and every repr(u8) code is read as
U8Max == 255

Type == {Type_Ping, Type_ApplicationCommand, Type_MessageComponent, Type_ModalSubmit}

ComponentType == {ComponentType_ActionRow, ComponentType_Button, ComponentType_TextInput}

TextInputStyle == {TextInputStyle_Short}

ButtonStyle == {ButtonStyle_Primary}

(***************************************************************************)
(* JSON values, Rust's Option and Result, and "no value yet".              *)
(***************************************************************************)
Nil == [nil |-> TRUE]

Absent == [t |-> "absent"]

JNull == [t |-> "null"]

JInt(n) == [t |-> "int", n |-> n]

JStr(s) == [t |-> "str", s |-> s]

JArr(a) == [t |-> "arr", a |-> a]

JObj(o) == [t |-> "obj", o |-> o]

Get(o, k) == IF k \in DOMAIN o THEN o[k] ELSE Absent

None == [some |-> FALSE]

Some(x) == [some |-> TRUE, x |-> x]

Ok(v) == [ok |-> TRUE, v |-> v]

Err == [ok |-> FALSE]

\* the outcome of a call that may panic
Ret(v) == [panic |-> FALSE, v |-> v]

Panic == [panic |-> TRUE]

SeqUpTo(S, n) == UNION {[1..k -> S] : k \in 0..n}

(***************************************************************************)
(* serde: the deserializers the derives generate.                          *)
(***************************************************************************)
De_String(j) == IF j.t = "str" THEN Ok(j.s) ELSE Err

De_u8(j) == IF j.t = "int" /\ j.n \in 0..U8Max THEN Ok(j.n) ELSE Err

\* Deserialize_repr: read the u8, then match it against the discriminants
De_repr(j, codes) ==
    LET n == De_u8(j)
    IN  IF n.ok /\ n.v \in codes THEN n ELSE Err

\* an Option field: a missing key and null are None, anything else must decode
\* r is what the inner type's deserializer makes of j
De_Option(j, r) ==
    IF j = Absent \/ j = JNull
    THEN Ok(None)
    ELSE IF r.ok THEN Ok(Some(r.v)) ELSE Err

\* a Vec: rs is what the element type's deserializer makes of each element
De_Vec(rs) ==
    IF \A i \in DOMAIN rs : rs[i].ok
    THEN Ok([i \in DOMAIN rs |-> rs[i].v])
    ELSE Err

De_ComponentType(j) == De_repr(j, ComponentType)

De_ButtonStyle(j) == De_repr(j, ButtonStyle)

De_TextInputStyle(j) == De_repr(j, TextInputStyle)

De_OptString(j) == De_Option(j, De_String(j))

De_OptTextInputStyle(j) == De_Option(j, De_TextInputStyle(j))

De_Button(j) ==
    IF j.t # "obj" THEN Err
    ELSE LET type == De_ComponentType(Get(j.o, "type"))
             label == De_OptString(Get(j.o, "label"))
             style == De_ButtonStyle(Get(j.o, "style"))
             custom_id == De_String(Get(j.o, "custom_id"))
         IN  IF type.ok /\ label.ok /\ style.ok /\ custom_id.ok
             THEN Ok([type |-> type.v, label |-> label.v, style |-> style.v,
                      custom_id |-> custom_id.v])
             ELSE Err

De_TextInput(j) ==
    IF j.t # "obj" THEN Err
    ELSE LET type == De_ComponentType(Get(j.o, "type"))
             label == De_OptString(Get(j.o, "label"))
             style == De_OptTextInputStyle(Get(j.o, "style"))
             custom_id == De_String(Get(j.o, "custom_id"))
             value == De_OptString(Get(j.o, "value"))
         IN  IF type.ok /\ label.ok /\ style.ok /\ custom_id.ok /\ value.ok
             THEN Ok([type |-> type.v, label |-> label.v, style |-> style.v,
                      custom_id |-> custom_id.v, value |-> value.v])
             ELSE Err

Component_Button(b) == [variant |-> "Button", v |-> b]

Component_Text(t) == [variant |-> "Text", v |-> t]

\* the untagged enum Component: Button is tried first, then Text
De_Component(j) ==
    LET b == De_Button(j)
        t == De_TextInput(j)
    IN  IF b.ok THEN Ok(Component_Button(b.v))
        ELSE IF t.ok THEN Ok(Component_Text(t.v))
        ELSE Err

De_VecComponent(j) ==
    IF j.t # "arr" THEN Err ELSE De_Vec([i \in DOMAIN j.a |-> De_Component(j.a[i])])

De_ActionRow(j) ==
    IF j.t # "obj" THEN Err
    ELSE LET type == De_ComponentType(Get(j.o, "type"))
             components == De_VecComponent(Get(j.o, "components"))
         IN  IF type.ok /\ components.ok
             THEN Ok([type |-> type.v, components |-> components.v])
             ELSE Err

De_VecActionRow(j) ==
    IF j.t # "arr" THEN Err ELSE De_Vec([i \in DOMAIN j.a |-> De_ActionRow(j.a[i])])

De_ApplicationCommandData(j) ==
    IF j.t # "obj" THEN Err
    ELSE LET name == De_String(Get(j.o, "name"))
         IN  IF name.ok THEN Ok([name |-> name.v]) ELSE Err

De_MessageComponentData(j) ==
    IF j.t # "obj" THEN Err
    ELSE LET custom_id == De_String(Get(j.o, "custom_id"))
             component_type == De_u8(Get(j.o, "component_type"))
         IN  IF custom_id.ok /\ component_type.ok
             THEN Ok([custom_id |-> custom_id.v, component_type |-> component_type.v])
             ELSE Err

De_ModalSubmitData(j) ==
    IF j.t # "obj" THEN Err
    ELSE LET custom_id == De_String(Get(j.o, "custom_id"))
             components == De_VecActionRow(Get(j.o, "components"))
         IN  IF custom_id.ok /\ components.ok
             THEN Ok([custom_id |-> custom_id.v, components |-> components.v])
             ELSE Err

Data_Command(d) == [variant |-> "Command", v |-> d]

Data_Message(d) == [variant |-> "Message", v |-> d]

Data_Modal(d) == [variant |-> "Modal", v |-> d]

\* mutant: the variants of Data tried in another order, Message before Command
De_Data_MessageFirst(j) ==
    LET c == De_ApplicationCommandData(j)
        m == De_MessageComponentData(j)
        f == De_ModalSubmitData(j)
    IN  IF m.ok THEN Ok(Data_Message(m.v))
        ELSE IF c.ok THEN Ok(Data_Command(c.v))
        ELSE IF f.ok THEN Ok(Data_Modal(f.v))
        ELSE Err

\* the untagged enum Data: Command, then Message, then Modal; the first that decodes
De_Data(j) ==
    LET c == De_ApplicationCommandData(j)
        m == De_MessageComponentData(j)
        f == De_ModalSubmitData(j)
    IN  IF c.ok THEN Ok(Data_Command(c.v))
        ELSE IF m.ok THEN Ok(Data_Message(m.v))
        ELSE IF f.ok THEN Ok(Data_Modal(f.v))
        ELSE Err

De_Type(j) == De_repr(j, Type)

De_User(j) ==
    IF j.t # "obj" THEN Err
    ELSE LET id == De_String(Get(j.o, "id"))
         IN  IF id.ok THEN Ok([id |-> id.v]) ELSE Err

De_GuildMember(j) ==
    IF j.t # "obj" THEN Err
    ELSE LET user == De_User(Get(j.o, "user"))
         IN  IF user.ok THEN Ok([user |-> user.v]) ELSE Err

De_MessageInteraction(j) ==
    IF j.t # "obj" THEN Err
    ELSE LET name == De_String(Get(j.o, "name"))
         IN  IF name.ok THEN Ok([name |-> name.v]) ELSE Err

De_OptMessageInteraction(j) == De_Option(j, De_MessageInteraction(j))

De_Message(j) ==
    IF j.t # "obj" THEN Err
    ELSE LET content == De_String(Get(j.o, "content"))
             interaction == De_OptMessageInteraction(Get(j.o, "interaction"))
         IN  IF content.ok /\ interaction.ok
             THEN Ok([content |-> content.v, interaction |-> interaction.v])
             ELSE Err

De_OptData(j) == De_Option(j, De_Data(j))

De_OptGuildMember(j) == De_Option(j, De_GuildMember(j))

De_OptMessage(j) == De_Option(j, De_Message(j))

De_Request(j) ==
    IF j.t # "obj" THEN Err
    ELSE LET type == De_Type(Get(j.o, "type"))
             data == De_OptData(Get(j.o, "data"))
             member == De_OptGuildMember(Get(j.o, "member"))
             message == De_OptMessage(Get(j.o, "message"))
         IN  IF type.ok /\ data.ok /\ member.ok /\ message.ok
             THEN Ok([type |-> type.v, data |-> data.v, member |-> member.v,
                      message |-> message.v])
             ELSE Err

(***************************************************************************)
(* Request: constructors and accessors.                                    *)
(***************************************************************************)
Request_ping == [type |-> Type_Ping, data |-> None, member |-> None, message |-> None]

ApplicationCommandData_new(name) == [name |-> name]

MessageComponentData_new(custom_id, component_type) ==
    [custom_id |-> custom_id, component_type |-> component_type]

Request_from_ApplicationCommandData(d) ==
    [type |-> Type_ApplicationCommand, data |-> Some(Data_Command(d)),
     member |-> None, message |-> None]

Request_from_MessageComponentData(d) ==
    [type |-> Type_MessageComponent, data |-> Some(Data_Message(d)),
     member |-> None, message |-> None]

Request_from_ModalSubmitData(d) ==
    [type |-> Type_ModalSubmit, data |-> Some(Data_Modal(d)),
     member |-> None, message |-> None]

GuildMember_new(user) == [user |-> [id |-> user]]

Request_member(r, member) == [r EXCEPT !.member = Some(member)]

Request_message(r, message) == [r EXCEPT !.message = Some(message)]

Request_get_user(r) == IF r.member.some THEN r.member.x.user.id ELSE "Unknown user"

Request_message_content(r) == IF r.message.some THEN r.message.x.content ELSE ""

Request_command_name(r) ==
    IF r.data.some /\ r.data.x.variant = "Command"
    THEN Some(r.data.x.v.name)
    ELSE None

\* mutant: the custom_id of a component activation only, None for a form
Request_custom_id_ComponentOnly(r) ==
    IF r.data.some /\ r.data.x.variant = "Message"
    THEN Some(r.data.x.v.custom_id)
    ELSE None

Request_custom_id(r) ==
    IF ~r.data.some THEN None
    ELSE IF r.data.x.variant = "Command" THEN None
    ELSE IF r.data.x.variant = "Message" THEN Some(r.data.x.v.custom_id)
    ELSE Some(r.data.x.v.custom_id)

\* self.value.as_ref()? : None when the value is None
TextInput_value(t) == IF t.value.some THEN Some(<<t.custom_id, t.value.x>>) ELSE None

Component_value(c) == IF c.variant = "Button" THEN None ELSE TextInput_value(c.v)

\* mutant: a row without children read as a missing value
ActionRow_component_value_Tolerant(row) ==
    IF Len(row.components) = 0 THEN Ret(None)
    ELSE LET c == row.components[1]
         IN  Ret(IF c.variant = "Text" THEN TextInput_value(c.v) ELSE None)

\* &self.components[0] panics on a row without children
ActionRow_component_value(row) ==
    IF Len(row.components) = 0 THEN Panic
    ELSE LET c == row.components[1]
         IN  Ret(IF c.variant = "Text" THEN TextInput_value(c.v) ELSE None)

\* a HashMap is the set of its (key, value) pairs; an insert replaces the key's pair
HashMap_insert(m, k, v) == {p \in m : p[1] # k} \cup {<<k, v>>}

RECURSIVE CollectValues(_, _)
\* collect() of the rows' values, in row order, into a HashMap
CollectValues(rows, m) ==
    IF rows = <<>> THEN Ret(m)
    ELSE LET cv == ActionRow_component_value(Head(rows))
         IN  IF cv.panic THEN Panic
             ELSE CollectValues(Tail(rows),
                                IF cv.v.some
                                THEN HashMap_insert(m, cv.v.x[1], cv.v.x[2])
                                ELSE m)

ModalSubmitData_values(d) == CollectValues(d.components, {})

Request_modal_submit_values(r) ==
    IF r.data.some /\ r.data.x.variant = "Modal"
    THEN ModalSubmitData_values(r.data.x.v)
    ELSE Ret({})

(***************************************************************************)
(* The raw requests handed to the decoder.                                 *)
(***************************************************************************)
RawLeaf(ty, lb, st, ci, va) ==
    JObj([type |-> ty, label |-> lb, style |-> st, custom_id |-> ci, value |-> va])

RawRow(children) ==
    JObj([type |-> JInt(ComponentType_ActionRow), components |-> JArr(children)])

RawData(nm, ci, ct, cs, ex) ==
    JObj([name |-> nm, custom_id |-> ci, component_type |-> ct, components |-> cs,
          extra |-> ex])

RawRequest(ty, da, me, ms) ==
    JObj([type |-> ty, data |-> da, member |-> me, message |-> ms])

RawMember(id) == JObj([user |-> JObj([id |-> id])])

RawMessage(content) == JObj([content |-> content, interaction |-> Absent])

\* a text field as the platform submits it
SubmittedText == RawLeaf(JInt(ComponentType_TextInput), Absent, Absent, JStr("v1"), JStr("x"))

TypeVals == {JInt(1), JInt(2), JInt(3), JInt(4), JInt(5), Absent}

NameVals == {Absent, JStr("hello"), JInt(7)}

CustomIdVals == {Absent, JStr("my_modal")}

ComponentTypeVals == {Absent, JInt(2), JInt(300)}

ComponentsVals ==
    {Absent, JStr("none"), JArr(<<>>), JArr(<<JInt(0)>>), JArr(<<RawRow(<<SubmittedText>>)>>)}

ExtraVals == {Absent, JStr("z")}

DataVals ==
    {Absent, JNull, JInt(0)} \cup
    {RawData(nm, ci, ct, cs, ex) :
        nm \in NameVals, ci \in CustomIdVals, ct \in ComponentTypeVals,
        cs \in ComponentsVals, ex \in ExtraVals}

MemberVals == {Absent, RawMember(JStr("42")), RawMember(JInt(42))}

MessageVals == {Absent, RawMessage(JStr("hi"))}

\* requests of every declared type over every shape of data
ShapeRequests ==
    {RawRequest(ty, da, me, ms) :
        ty \in TypeVals, da \in DataVals, me \in MemberVals, ms \in MessageVals}

LeafVals ==
    {RawLeaf(ty, lb, st, ci, va) :
        ty \in {Absent, JInt(ComponentType_Button), JInt(ComponentType_TextInput)},
        lb \in {Absent, JStr("l")},
        st \in {Absent, JNull, JInt(1), JInt(9)},
        ci \in {Absent, JStr("v1")},
        va \in {Absent, JNull, JStr("x")}}

FormRequest(rows) ==
    RawRequest(JInt(Type_ModalSubmit),
               RawData(Absent, JStr("my_modal"), Absent, JArr(rows), Absent),
               Absent, Absent)

\* form submissions of one row with one leaf, over every shape of leaf
LeafRequests == {FormRequest(<<RawRow(<<l>>)>>) : l \in LeafVals}

FormLeaves ==
    {RawLeaf(JInt(ComponentType_TextInput), Absent, Absent, JStr("v1"), JStr("x")),
     RawLeaf(JInt(ComponentType_TextInput), Absent, Absent, JStr("v1"), JStr("y")),
     RawLeaf(JInt(ComponentType_Button), Absent, JInt(ButtonStyle_Primary), JStr("b1"), Absent)}

\* form submissions of up to MaxRows rows of up to MaxChildren leaves each
FormRequests ==
    {FormRequest(rows) :
        rows \in SeqUpTo({RawRow(ch) : ch \in SeqUpTo(FormLeaves, MaxChildren)}, MaxRows)}

(***************************************************************************)
(* Components, rows and the builders of Response.                          *)
(***************************************************************************)
Component_button ==
    [type |-> ComponentType_Button, label |-> None, style |-> ButtonStyle_Primary,
     custom_id |-> "unlabeled button"]

Button_label(b, label) == [b EXCEPT !.label = Some(label)]

Button_id(b, id) == [b EXCEPT !.custom_id = id]

TextInput_new ==
    [type |-> ComponentType_TextInput, label |-> None,
     style |-> Some(TextInputStyle_Short), custom_id |-> "unlabeled text input",
     value |-> None]

TextInput_label(t, label) == [t EXCEPT !.label = Some(label)]

TextInput_id(t, id) == [t EXCEPT !.custom_id = id]

ActionRow_new == [type |-> ComponentType_ActionRow, components |-> <<>>]

ActionRow_components(row, components) == [row EXCEPT !.components = components]

Response_message ==
    [content |-> "", flags |-> Some(MessageFlags_Ephemeral), components |-> <<>>]

MessageCallbackData_content(m, msg) == [m EXCEPT !.content = msg]

\* the whole list goes into one row
MessageCallbackData_components(m, components) ==
    [m EXCEPT !.components = <<ActionRow_components(ActionRow_new, components)>>]

MessageCallbackData_shout(m) == [m EXCEPT !.flags = None]

Response_modal == [custom_id |-> "", title |-> "", components |-> <<>>]

ModalCallbackData_id(m, id) == [m EXCEPT !.custom_id = id]

ModalCallbackData_title(m, title) == [m EXCEPT !.title = title]

\* mutant: the whole list in one row, as the message builder does
ModalCallbackData_components_OneRow(m, components) ==
    [m EXCEPT !.components = <<ActionRow_components(ActionRow_new, components)>>]

\* every component goes into a row of its own
ModalCallbackData_components(m, components) ==
    [m EXCEPT !.components =
        [i \in DOMAIN components |->
            ActionRow_components(ActionRow_new, <<components[i]>>)]]

CallbackData_Message(m) == [variant |-> "Message", v |-> m]

CallbackData_Modal(m) == [variant |-> "Modal", v |-> m]

Response_pong ==
    [type |-> CallbackType_Pong,
     data |-> CallbackData_Message([content |-> "", flags |-> None, components |-> <<>>])]

Response_from_ModalCallbackData(d) ==
    [type |-> CallbackType_Modal, data |-> CallbackData_Modal(d)]

Response_from_MessageCallbackData(d) ==
    [type |-> CallbackType_ChannelMessageWithSource, data |-> CallbackData_Message(d)]

Response_edit(r) == [r EXCEPT !.type = CallbackType_UpdateMessage]

Response_message_content(r) ==
    IF r.data.variant = "Message" THEN Some(r.data.v.content) ELSE None

\* mutant: no check of the row count, the first row if there is one
Response_message_components_FirstRow(r) ==
    IF r.data.variant = "Message" /\ Len(r.data.v.components) > 0
    THEN Ret(r.data.v.components[1].components)
    ELSE Ret(<<>>)

Response_message_components(r) ==
    IF r.data.variant = "Message"
    THEN IF Len(r.data.v.components) # 1
         THEN Panic
         ELSE Ret(r.data.v.components[1].components)
    ELSE Ret(<<>>)

(***************************************************************************)
(* serde: the serializers the derives generate.  Every field of a struct   *)
(* is written; an Option that is None is written as null.                  *)
(***************************************************************************)
Ser_OptString(o) == IF o.some THEN JStr(o.x) ELSE JNull

Ser_OptRepr(o) == IF o.some THEN JInt(o.x) ELSE JNull

Ser_Button(b) ==
    JObj([type |-> JInt(b.type), label |-> Ser_OptString(b.label),
          style |-> JInt(b.style), custom_id |-> JStr(b.custom_id)])

Ser_TextInput(t) ==
    JObj([type |-> JInt(t.type), label |-> Ser_OptString(t.label),
          style |-> Ser_OptRepr(t.style), custom_id |-> JStr(t.custom_id),
          value |-> Ser_OptString(t.value)])

Ser_Component(c) == IF c.variant = "Button" THEN Ser_Button(c.v) ELSE Ser_TextInput(c.v)

Ser_ActionRow(row) ==
    JObj([type |-> JInt(row.type),
          components |-> JArr([i \in DOMAIN row.components |->
                                  Ser_Component(row.components[i])])])

Ser_Rows(rows) == JArr([i \in DOMAIN rows |-> Ser_ActionRow(rows[i])])

Ser_MessageCallbackData(m) ==
    JObj([content |-> JStr(m.content), flags |-> Ser_OptRepr(m.flags),
          components |-> Ser_Rows(m.components)])

Ser_ModalCallbackData(m) ==
    JObj([custom_id |-> JStr(m.custom_id), title |-> JStr(m.title),
          components |-> Ser_Rows(m.components)])

Ser_CallbackData(d) ==
    IF d.variant = "Message"
    THEN Ser_MessageCallbackData(d.v)
    ELSE Ser_ModalCallbackData(d.v)

Ser_Response(r) == JObj([type |-> JInt(r.type), data |-> Ser_CallbackData(r.data)])

(***************************************************************************)
(* The components a caller hands to .components(list).                     *)
(***************************************************************************)
BuiltComponents ==
    {Component_Button(Component_button),
     Component_Button(Button_id(Button_label(Component_button, "ok"), "b1")),
     Component_Text(TextInput_id(TextInput_label(TextInput_new, "A value"), "v1"))}

ComponentLists == SeqUpTo(BuiltComponents, MaxList)

(***************************************************************************)
(* The request side: a raw request is received and decoded, or a request   *)
(* is constructed; the accessors are then called on it.                    *)
(***************************************************************************)
Call(op, res) == [op |-> op, res |-> res]

\* one request is handled per invocation
Fresh == raw = Nil /\ req = Nil

Receive(inputs) ==
    /\ Fresh
    /\ \E r \in inputs : raw' = r
    /\ req' = Nil
    /\ out' = Nil
    /\ UNCHANGED respVars

ReceiveShape == Receive(ShapeRequests)

ReceiveLeaf == Receive(LeafRequests)

ReceiveForm == Receive(FormRequests)

Decode ==
    /\ raw # Nil
    /\ req = Nil
    /\ req' = De_Request(raw)
    /\ out' = Nil
    /\ UNCHANGED <<raw>>
    /\ UNCHANGED respVars

Construct(r) ==
    /\ Fresh
    /\ raw' = Nil
    /\ req' = Ok(r)
    /\ out' = Nil
    /\ UNCHANGED respVars

RequestPing == Construct(Request_ping)

RequestFromApplicationCommand ==
    \E name \in {"hello"} :
        Construct(Request_from_ApplicationCommandData(ApplicationCommandData_new(name)))

RequestFromMessageComponent ==
    \E id \in {"edit"}, ct \in {ComponentType_Button} :
        Construct(Request_from_MessageComponentData(MessageComponentData_new(id, ct)))

Built == req # Nil /\ req.ok

SetMember ==
    /\ Built
    /\ req' = Ok(Request_member(req.v, GuildMember_new("42")))
    /\ out' = Nil
    /\ UNCHANGED <<raw>>
    /\ UNCHANGED respVars

SetMessage ==
    /\ Built
    /\ req' = Ok(Request_message(req.v, [content |-> "hi", interaction |-> None]))
    /\ out' = Nil
    /\ UNCHANGED <<raw>>
    /\ UNCHANGED respVars

Access(op, res) ==
    /\ Built
    /\ out' = Call(op, res)
    /\ UNCHANGED <<raw, req>>
    /\ UNCHANGED respVars

GetUser == Built /\ Access("get_user", Request_get_user(req.v))

MessageContent == Built /\ Access("message_content", Request_message_content(req.v))

CommandName == Built /\ Access("command_name", Request_command_name(req.v))

CustomId == Built /\ Access("custom_id", Request_custom_id(req.v))

ModalSubmitValues ==
    Built /\ Access("modal_submit_values", Request_modal_submit_values(req.v))

Init ==
    /\ raw = Nil
    /\ req = Nil
    /\ out = Nil
    /\ builder = Nil
    /\ resp = Nil
    /\ wire = Nil
    /\ got = Nil
    /\ origin = "none"
    /\ shouted = FALSE
    /\ given = None

Next ==
    \/ ReceiveShape
    \/ ReceiveLeaf
    \/ Decode
    \/ RequestPing
    \/ RequestFromApplicationCommand
    \/ RequestFromMessageComponent
    \/ SetMember
    \/ SetMessage
    \/ GetUser
    \/ MessageContent
    \/ CommandName
    \/ CustomId
    \/ ModalSubmitValues

Spec == Init /\ [][Next]_vars

NextForm ==
    \/ ReceiveForm
    \/ ReceiveLeaf
    \/ Decode
    \/ ModalSubmitValues

SpecForm == Init /\ [][NextForm]_vars

(***************************************************************************)
(* The response side: one response is built per invocation, by pong() or   *)
(* by a builder chain finalized with into(); it may then be edited, read   *)
(* and serialized.                                                         *)
(***************************************************************************)
Start == builder = Nil /\ resp = Nil

ResponsePong ==
    /\ Start
    /\ resp' = Response_pong
    /\ origin' = "pong"
    /\ UNCHANGED <<builder, wire, got, shouted, given>>
    /\ UNCHANGED reqVars

ResponseMessage ==
    /\ Start
    /\ builder' = [kind |-> "message", v |-> Response_message]
    /\ origin' = "message"
    /\ UNCHANGED <<resp, wire, got, shouted, given>>
    /\ UNCHANGED reqVars

ResponseModal ==
    /\ Start
    /\ builder' = [kind |-> "modal", v |-> Response_modal]
    /\ origin' = "modal"
    /\ UNCHANGED <<resp, wire, got, shouted, given>>
    /\ UNCHANGED reqVars

Building(kind) == builder # Nil /\ builder.kind = kind

Step(kind, v) ==
    /\ Building(kind)
    /\ builder' = [kind |-> kind, v |-> v]
    /\ UNCHANGED <<resp, wire, got, origin>>
    /\ UNCHANGED reqVars

MsgContent ==
    /\ Building("message")
    /\ \E msg \in {"hi"} : Step("message", MessageCallbackData_content(builder.v, msg))
    /\ UNCHANGED <<shouted, given>>

MsgComponents ==
    /\ Building("message")
    /\ \E list \in ComponentLists :
        /\ Step("message", MessageCallbackData_components(builder.v, list))
        /\ given' = Some(list)
    /\ UNCHANGED <<shouted>>

MsgShout ==
    /\ Building("message")
    /\ Step("message", MessageCallbackData_shout(builder.v))
    /\ shouted' = TRUE
    /\ UNCHANGED <<given>>

ModalId ==
    /\ Building("modal")
    /\ \E id \in {"my_modal"} : Step("modal", ModalCallbackData_id(builder.v, id))
    /\ UNCHANGED <<shouted, given>>

ModalTitle ==
    /\ Building("modal")
    /\ \E title \in {"Provide input values."} :
        Step("modal", ModalCallbackData_title(builder.v, title))
    /\ UNCHANGED <<shouted, given>>

ModalComponents ==
    /\ Building("modal")
    /\ \E list \in ComponentLists :
        /\ Step("modal", ModalCallbackData_components(builder.v, list))
        /\ given' = Some(list)
    /\ UNCHANGED <<shouted>>

\* Response::from(builder): the builder is consumed
Into ==
    /\ builder # Nil
    /\ resp' = IF builder.kind = "message"
               THEN Response_from_MessageCallbackData(builder.v)
               ELSE Response_from_ModalCallbackData(builder.v)
    /\ builder' = Nil
    /\ UNCHANGED <<wire, got>>
    /\ UNCHANGED histVars
    /\ UNCHANGED reqVars

\* edit(self) consumes the response: what was read or written of it is dropped
Edit ==
    /\ resp # Nil
    /\ resp' = Response_edit(resp)
    /\ wire' = Nil
    /\ got' = Nil
    /\ UNCHANGED <<builder>>
    /\ UNCHANGED histVars
    /\ UNCHANGED reqVars

Serialize ==
    /\ resp # Nil
    /\ wire' = Ser_Response(resp)
    /\ UNCHANGED <<builder, resp, got>>
    /\ UNCHANGED histVars
    /\ UNCHANGED reqVars

Read(op, res) ==
    /\ resp # Nil
    /\ got' = Call(op, res)
    /\ UNCHANGED <<builder, resp, wire>>
    /\ UNCHANGED histVars
    /\ UNCHANGED reqVars

ReplyContent == resp # Nil /\ Read("message_content", Ret(Response_message_content(resp)))

ReplyComponents == resp # Nil /\ Read("message_components", Response_message_components(resp))

NextResp ==
    \/ ResponsePong
    \/ ResponseMessage
    \/ ResponseModal
    \/ MsgContent
    \/ MsgComponents
    \/ MsgShout
    \/ ModalId
    \/ ModalTitle
    \/ ModalComponents
    \/ Into
    \/ Edit
    \/ Serialize
    \/ ReplyContent
    \/ ReplyComponents

SpecResp == Init /\ [][NextResp]_vars

(***************************************************************************)
(* What the claims speak of.                                               *)
(***************************************************************************)
\* a raw request was received and decoded
Decoded == raw # Nil /\ req # Nil

\* the raw data object of the received request
RawDataOf == Get(raw.o, "data")

\* the request's fields other than data decode
OtherFieldsValid ==
    /\ De_Type(Get(raw.o, "type")).ok
    /\ De_OptGuildMember(Get(raw.o, "member")).ok
    /\ De_OptMessage(Get(raw.o, "message")).ok

\* the payload variant a request carries
Payload(r) == IF r.data.some THEN r.data.x.variant ELSE "none"

\* the payload variant that the spec pairs with each kind
PayloadOfKind(type) ==
    CASE type = Type_Ping -> "none"
      [] type = Type_ApplicationCommand -> "Command"
      [] type = Type_MessageComponent -> "Message"
      [] type = Type_ModalSubmit -> "Modal"

IsStr(j) == j.t = "str"

IsU8(j) == j.t = "int" /\ j.n \in 0..U8Max

IsSeq(j) == j.t = "arr"

(***************************************************************************)
(* C1.  Decoding validates that the payload matches the declared kind: a   *)
(* request whose data has the shape of another kind's payload, or a ping   *)
(* that carries data, is a decode error; so every decoded request that     *)
(* carries a payload carries the one of its kind, and a Ping carries none. *)
(* The derived decoder checks the kind and the payload independently.      *)
(***************************************************************************)
C1_PayloadMatchesKind ==
    (Decoded /\ req.ok /\ req.v.data.some) =>
        Payload(req.v) = PayloadOfKind(req.v.type)

(***************************************************************************)
(* C3.  A leaf object that has a `value` key (even null) decodes as a      *)
(* TextField, also when it carries style 1, the code both leaf kinds       *)
(* share.  The untagged Component tries Button first, and Button ignores   *)
(* the key.                                                                *)
(***************************************************************************)
C3_ValueKeyMeansTextField ==
    (Decoded /\ req.ok /\ Payload(req.v) = "Modal" /\ IsSeq(Get(RawDataOf.o, "components"))) =>
        LET rawRows == Get(RawDataOf.o, "components").a
            rows == req.v.data.x.v.components
        IN  \A i \in DOMAIN rawRows :
                \A k \in DOMAIN Get(rawRows[i].o, "components").a :
                    Get(Get(rawRows[i].o, "components").a[k].o, "value") # Absent
                        => rows[i].components[k].variant = "Text"

(***************************************************************************)
(* C4.  For a data object with a string custom_id (and no string name):    *)
(* with an integer component_type and no components sequence it is a       *)
(* ComponentActivationPayload; with a components sequence it is a          *)
(* FormSubmitPayload, also when component_type is present; and an object   *)
(* matching no rule is a decode error.  The untagged Data tries Message    *)
(* before Modal, and Message ignores the components key.                   *)
(***************************************************************************)
C4_Rule2(d) ==
    /\ IsStr(Get(d.o, "custom_id"))
    /\ IsU8(Get(d.o, "component_type"))
    /\ ~IsSeq(Get(d.o, "components"))

C4_Rule3(d) ==
    /\ IsStr(Get(d.o, "custom_id"))
    /\ De_VecActionRow(Get(d.o, "components")).ok

C4_OrderedRules ==
    (Decoded /\ OtherFieldsValid /\ RawDataOf.t = "obj" /\ ~IsStr(Get(RawDataOf.o, "name"))) =>
        /\ C4_Rule2(RawDataOf) => req.ok /\ Payload(req.v) = "Message"
        /\ C4_Rule3(RawDataOf) => req.ok /\ Payload(req.v) = "Modal"
        /\ (~C4_Rule2(RawDataOf) /\ ~C4_Rule3(RawDataOf)) => ~req.ok

(***************************************************************************)
(* C5.  A data object with a string `name` decodes as the CommandPayload   *)
(* of that name whatever other fields it has (custom_id, component_type,   *)
(* components, unknown keys): the request decodes with that payload        *)
(* whenever its other fields decode.                                       *)
(***************************************************************************)
C5_NameMeansCommand ==
    (Decoded /\ RawDataOf.t = "obj" /\ IsStr(Get(RawDataOf.o, "name"))) =>
        IF OtherFieldsValid
        THEN /\ req.ok
             /\ req.v.data = Some(Data_Command([name |-> Get(RawDataOf.o, "name").s]))
        ELSE ~req.ok

C5_Witness ==
    /\ Decoded
    /\ RawDataOf.t = "obj"
    /\ IsStr(Get(RawDataOf.o, "name"))
    /\ IsStr(Get(RawDataOf.o, "custom_id"))
    /\ IsU8(Get(RawDataOf.o, "component_type"))
    /\ De_VecActionRow(Get(RawDataOf.o, "components")).ok
    /\ Get(RawDataOf.o, "components").a # <<>>
    /\ Get(RawDataOf.o, "extra") # Absent
    /\ req.ok
    /\ Payload(req.v) = "Command"
    /\ req.v.data.x.v.name = "hello"

(***************************************************************************)
(* C9.  As claimed: the accessors give None or the empty mapping when the  *)
(* request's kind does not match: command_name() is Some only for a        *)
(* Command request, custom_id() only for a ComponentActivation request     *)
(* (None for a Ping, Command or FormSubmit request), and                   *)
(* modal_submit_values() is empty for every request that is not a          *)
(* FormSubmit.  Stated of the requests that carry the payload of their     *)
(* kind, those a constructor makes or a well-formed input decodes to.      *)
(***************************************************************************)
C9_AsClaimed ==
    (Built /\ out # Nil /\ Payload(req.v) = PayloadOfKind(req.v.type)) =>
        /\ (out.op = "command_name" /\ out.res.some)
                => req.v.type = Type_ApplicationCommand
        /\ (out.op = "custom_id" /\ out.res.some)
                => req.v.type = Type_MessageComponent
        /\ (out.op = "modal_submit_values" /\ req.v.type # Type_ModalSubmit)
                => out.res = Ret({})

(***************************************************************************)
(* C9, amended.  The accessors go by the payload the request carries and   *)
(* never fail on one that does not match: command_name() is Some only for  *)
(* a Command payload; custom_id() is Some only for a ComponentActivation   *)
(* or a FormSubmit payload, and for a FormSubmit it is the form's          *)
(* custom_id; modal_submit_values() is the empty mapping for every         *)
(* request whose payload is not a FormSubmit.                              *)
(***************************************************************************)
C9_ByPayload ==
    (Built /\ out # Nil) =>
        /\ (out.op = "command_name" /\ out.res.some)
                => Payload(req.v) = "Command"
        /\ (out.op = "custom_id" /\ out.res.some)
                => Payload(req.v) \in {"Message", "Modal"}
        /\ (out.op = "custom_id" /\ Payload(req.v) = "Modal")
                => out.res = Some(req.v.data.x.v.custom_id)
        /\ (out.op = "modal_submit_values" /\ Payload(req.v) # "Modal")
                => out.res = Ret({})

C9_Witness ==
    /\ Decoded
    /\ req.ok
    /\ out # Nil
    /\ out.op = "custom_id"
    /\ req.v.type = Type_ModalSubmit
    /\ Payload(req.v) = "Modal"
    /\ out.res = Some("my_modal")

(***************************************************************************)
(* C10.  For a decoded form submission modal_submit_values() panics when   *)
(* some row has no children; otherwise it holds exactly the (id, value)    *)
(* pairs of the rows whose first child is a text field with a value (for   *)
(* an id that several rows give, the pair of the last of them), and a row  *)
(* whose first child is a button or a text field without a value adds      *)
(* nothing.                                                                *)
(***************************************************************************)
FormRows == req.v.data.x.v.components

Contributes(row) ==
    /\ Len(row.components) > 0
    /\ row.components[1].variant = "Text"
    /\ row.components[1].v.value.some

PairOf(row) == <<row.components[1].v.custom_id, row.components[1].v.value.x>>

C10_FormValues ==
    (Built /\ out # Nil /\ out.op = "modal_submit_values" /\ Payload(req.v) = "Modal") =>
        IF \E i \in DOMAIN FormRows : Len(FormRows[i].components) = 0
        THEN out.res = Panic
        ELSE /\ ~out.res.panic
             /\ \A p \in out.res.v :
                    \E i \in DOMAIN FormRows :
                        Contributes(FormRows[i]) /\ PairOf(FormRows[i]) = p
             /\ \A i \in DOMAIN FormRows :
                    Contributes(FormRows[i]) =>
                        \/ PairOf(FormRows[i]) \in out.res.v
                        \/ \E k \in DOMAIN FormRows :
                              /\ k > i
                              /\ Contributes(FormRows[k])
                              /\ PairOf(FormRows[k])[1] = PairOf(FormRows[i])[1]
                              /\ PairOf(FormRows[k]) \in out.res.v
             /\ \A p, q \in out.res.v : p[1] = q[1] => p = q

C10_Witness ==
    /\ Decoded
    /\ req.ok
    /\ out # Nil
    /\ out.op = "modal_submit_values"
    /\ Payload(req.v) = "Modal"
    /\ Len(FormRows) = 2
    /\ Len(FormRows[1].components) = 2
    /\ FormRows[1].components[1].variant = "Button"
    /\ Contributes([FormRows[1] EXCEPT !.components = Tail(@)])
    /\ Contributes(FormRows[2])
    /\ out.res = Ret({PairOf(FormRows[2])})

(***************************************************************************)
(* C2.  Every response the constructors and builder steps reach carries    *)
(* the payload of its kind: a MessageReply under Pong,                     *)
(* ChannelMessageWithSource and UpdateMessage, a FormReply under Modal;    *)
(* and UpdateMessage is reached only from a message builder, never over    *)
(* the acknowledge value or a FormReply.  edit() is defined on every       *)
(* Response and sets the kind whatever the payload.                        *)
(***************************************************************************)
C2_PayloadMatchesKind ==
    resp # Nil =>
        /\ resp.type \in {CallbackType_Pong, CallbackType_ChannelMessageWithSource,
                          CallbackType_UpdateMessage}
                => resp.data.variant = "Message"
        /\ resp.type = CallbackType_Modal => resp.data.variant = "Modal"
        /\ resp.type = CallbackType_UpdateMessage => origin = "message"

(***************************************************************************)
(* C6.  The wire value of a MessageReply finalized after a chain with      *)
(* .shout() has no `flags` key at all, and after a chain without .shout()  *)
(* has flags 64.  The derived serializer writes every field, a None as     *)
(* null.                                                                   *)
(***************************************************************************)
C6_ShoutOmitsFlags ==
    (wire # Nil /\ origin = "message") =>
        IF shouted
        THEN Get(Get(wire.o, "data").o, "flags") = Absent
        ELSE Get(Get(wire.o, "data").o, "flags") = JInt(MessageFlags_Ephemeral)

(***************************************************************************)
(* C7.  After .components(list) on a form builder the FormReply holds one  *)
(* row per component of the list last given, row i holding exactly         *)
(* list[i]; a form on which .components was never called has no rows; so   *)
(* every row of a FormReply has exactly one child, in the builder and in   *)
(* the finalized response.                                                 *)
(***************************************************************************)
FormReplyRows ==
    IF builder # Nil THEN builder.v.components ELSE resp.data.v.components

C7_OneRowPerComponent ==
    (origin = "modal" /\ (builder # Nil \/ resp # Nil)) =>
        /\ \A i \in DOMAIN FormReplyRows : Len(FormReplyRows[i].components) = 1
        /\ IF ~given.some
           THEN FormReplyRows = <<>>
           ELSE /\ Len(FormReplyRows) = Len(given.x)
                /\ \A i \in DOMAIN given.x :
                       /\ FormReplyRows[i].type = ComponentType_ActionRow
                       /\ FormReplyRows[i].components = <<given.x[i]>>

C7_Witness ==
    /\ origin = "modal"
    /\ resp # Nil
    /\ resp.type = CallbackType_Modal
    /\ given.some
    /\ Len(given.x) = MaxList
    /\ given.x[1] # given.x[MaxList]
    /\ Len(resp.data.v.components) = MaxList
    /\ resp.data.v.components[MaxList].components = <<given.x[MaxList]>>

(***************************************************************************)
(* C8.  message_components() gives back the list handed to                 *)
(* message_reply().components(list), in order, also after edit(); on a     *)
(* response made from a form builder it gives the empty sequence without   *)
(* failing; on a message reply built without .components and on the        *)
(* acknowledge value, whose row count is not one, it panics.               *)
(***************************************************************************)
C8_ReplyComponents ==
    (got # Nil /\ got.op = "message_components") =>
        /\ (origin = "message" /\ given.some) => got.res = Ret(given.x)
        /\ (origin = "message" /\ ~given.some) => got.res = Panic
        /\ origin = "pong" => got.res = Panic
        /\ origin = "modal" => got.res = Ret(<<>>)

C8_Witness ==
    /\ got # Nil
    /\ got.op = "message_components"
    /\ origin = "message"
    /\ resp.type = CallbackType_UpdateMessage
    /\ given.some
    /\ Len(given.x) = MaxList
    /\ given.x[1] # given.x[MaxList]
    /\ got.res = Ret(given.x)

====
